---- MODULE Spec2Model ----
(***************************************************************************)
(* Text-To-QR (src/app.py): a Flask application with three routes.  POST / *)
(* trims the form field `data`, rejects an empty or an over-long value and *)
(* otherwise returns the QR code of the text as a PNG attachment.          *)
(*                                                                         *)
(* Texts are kept run-length encoded: a text is a sequence of runs, a run  *)
(* [c |-> ch, n |-> k] standing for the character ch repeated k times, so  *)
(* that texts around the 1000 character limit stay small values.           *)
(***************************************************************************)
EXTENDS Integers, Sequences, FiniteSets, TLC

VARIABLES
    pc,          \* per worker thread: where it is in the request it serves
    req,         \* per worker thread: the request (flask.request, context local)
    data,        \* home(): the local `data` (line 96), one per call frame
    qr_stream,   \* home(): the local `qr_stream` (line 107), one per call frame
    response,    \* per worker thread: the response of the request
    calls,       \* per worker thread: the calls of generate_qr_code made for the request
    steps,       \* per worker thread: the statements of home() executed for the request
    env,         \* the process environment (after dotenv.load_dotenv)
    main         \* the __main__ block: its position and its locals

vars == <<pc, req, data, qr_stream, response, calls, steps, env, main>>

reqVars == <<pc, req, data, qr_stream, response, calls, steps>>

(***************************************************************************)
(* Bounds of the model.                                                    *)
(***************************************************************************)
MaxRuns == 3        \* runs in a submitted text
NThreads == 2       \* worker threads of the hosting server
MaxEnvLen == 4      \* characters in the IS_DEBUG value

Threads == 1..NThreads

(***************************************************************************)
(* Texts.                                                                  *)
(***************************************************************************)
CJK == "U+4E2D"     \* a character outside ASCII: one code point, three UTF-8 bytes

Chars == {" ", "\n", "a", CJK}

RunLens == {1, 999, 1000, 1001}

Run == [c : Chars, n : RunLens]

Texts == UNION {[1..k -> Run] : k \in 0..MaxRuns}

EmptyText == <<>>

\* str.isspace for the characters of the model
IsSpace(ch) == ch \in {" ", "\n"}

\* len(s): the number of code points
RECURSIVE PyLen(_)
PyLen(s) == IF s = <<>> THEN 0 ELSE Head(s).n + PyLen(Tail(s))

RECURSIVE LStrip(_)
LStrip(s) ==
    IF s = <<>> THEN s
    ELSE IF IsSpace(Head(s).c) THEN LStrip(Tail(s)) ELSE s

RECURSIVE RStrip(_)
RStrip(s) ==
    IF s = <<>> THEN s
    ELSE IF IsSpace(s[Len(s)].c) THEN RStrip(SubSeq(s, 1, Len(s) - 1)) ELSE s

\* A slip: only the leading whitespace goes.
StripLeadingOnly(s) == LStrip(s)

\* str.strip(): leading and trailing whitespace removed
Strip(s) == RStrip(LStrip(s))

(***************************************************************************)
(* The encoder adapter, generate_qr_code (lines 45-67).                    *)
(*                                                                         *)
(* QRCode(version=1, ...) with make(fit=True) takes the smallest version   *)
(* that holds the data and raises DataOverflowError when version 40 does   *)
(* not.  add_data splits the payload into chunks: a stretch of at least    *)
(* ADD_DATA_OPTIMIZE characters of the alphanumeric table (of the model's  *)
(* characters, the space) is an alphanumeric chunk, the rest 8-bit byte    *)
(* chunks of the UTF-8 encoding.                                           *)
(***************************************************************************)
QR_MAX_BITS == 18672          \* version 40, error correction M (the default): 2334 data codewords

ADD_DATA_OPTIMIZE == 20       \* add_data(data, optimize=20), the default

MODE_BITS == 4                \* the mode indicator of a chunk

BYTE_LEN_BITS == 16           \* the character count of an 8-bit byte chunk, versions 27-40

ALNUM_LEN_BITS == 13          \* the character count of an alphanumeric chunk, versions 27-40

Utf8Width(ch) == IF ch = CJK THEN 3 ELSE 1

InAlphaNumTable(ch) == ch = " "

\* the text with adjacent runs of one character joined
RECURSIVE Normalize(_)
Normalize(s) ==
    IF Len(s) <= 1 THEN s
    ELSE LET rest == Normalize(Tail(s))
         IN  IF Head(s).c = Head(rest).c
             THEN <<[c |-> Head(s).c, n |-> Head(s).n + Head(rest).n]>> \o Tail(rest)
             ELSE <<Head(s)>> \o rest

AlnumChunkBits(k) == MODE_BITS + ALNUM_LEN_BITS + 11 * (k \div 2) + 6 * (k % 2)

\* the bits of the chunks of runs s; open: the previous run was put in a byte chunk
RECURSIVE ChunkBits(_, _)
ChunkBits(s, open) ==
    IF s = <<>> THEN 0
    ELSE IF InAlphaNumTable(Head(s).c) /\ Head(s).n >= ADD_DATA_OPTIMIZE
         THEN AlnumChunkBits(Head(s).n) + ChunkBits(Tail(s), FALSE)
         ELSE (IF open THEN 0 ELSE MODE_BITS + BYTE_LEN_BITS)
              + 8 * Utf8Width(Head(s).c) * Head(s).n
              + ChunkBits(Tail(s), TRUE)

\* the bits the payload takes at version 40
EncodedBits(text) ==
    LET s == Normalize(text)
    IN  IF s = <<>> THEN 0
        ELSE IF PyLen(s) <= ADD_DATA_OPTIMIZE /\ \A i \in 1..Len(s) : InAlphaNumTable(s[i].c)
             THEN AlnumChunkBits(PyLen(s))
             ELSE ChunkBits(s, FALSE)

\* qr.make(fit=True) finds a version for the payload
Fits(text) == EncodedBits(text) <= QR_MAX_BITS

NoBuffer == [content |-> <<>>, pos |-> 0]

\* img.save(buffer, format="PNG") on a fresh io.BytesIO: the position ends after the bytes
SavePng(text) ==
    LET content == <<[tag |-> "PNG_SIGNATURE", text |-> EmptyText],
                     [tag |-> "QR_IMAGE", text |-> text]>>
    IN  [content |-> content, pos |-> Len(content)]

\* A slip: the buffer is returned as img.save left it.
NoRewind(buffer) == buffer

\* buffer.seek(0)
Rewind(buffer) == [buffer EXCEPT !.pos = 0]

\* what a read of the stream from its position gives
ReadStream(buffer) == SubSeq(buffer.content, buffer.pos + 1, Len(buffer.content))

\* qr.add_data(data.strip())
EncoderPayload(d) == Strip(d)

\* generate_qr_code(data): the buffer returned, or the exception raised
generate_qr_code(d) ==
    LET payload == EncoderPayload(d)
    IN  IF Fits(payload)
        THEN [raised |-> FALSE, arg |-> d, payload |-> payload,
              value |-> Rewind(SavePng(payload))]
        ELSE [raised |-> TRUE, arg |-> d, payload |-> payload, value |-> NoBuffer]

(***************************************************************************)
(* Responses.                                                              *)
(***************************************************************************)
NoResponse ==
    [status |-> 0, mimetype |-> "", headers |-> {}, as_attachment |-> FALSE,
     download_name |-> "", body |-> <<>>, json_keys |-> {}, message |-> ""]

\* render_template(name): an HTML page, 200
render_template(name) ==
    [NoResponse EXCEPT !.status = 200, !.mimetype = "text/html",
                       !.body = <<[tag |-> name, text |-> EmptyText]>>]

\* jsonify({"error": ...}), 400  (line 100)
EmptyInputResponse ==
    [NoResponse EXCEPT !.status = 400, !.mimetype = "application/json",
                       !.json_keys = {"error"},
                       !.message = "No text provided for QR generation.",
                       !.body = <<[tag |-> "json", text |-> EmptyText]>>]

\* A slip: the over-long input reported like the empty one.
TooLongAsJson == EmptyInputResponse

\* raise BadRequest(...)  (line 104): werkzeug renders the exception as an HTML page
TooLongResponse ==
    [NoResponse EXCEPT !.status = 400, !.mimetype = "text/html",
                       !.message = "Input too long. Please limit text to 1000 characters.",
                       !.body = <<[tag |-> "error_page", text |-> EmptyText]>>]

\* A slip: the encoder's exception caught and reported as a client error.
EncoderErrorAsBadRequest == TooLongResponse

\* an exception leaves home() (line 107): the framework answers 500
EncoderErrorResponse ==
    [NoResponse EXCEPT !.status = 500, !.mimetype = "text/html",
                       !.message = "Internal Server Error",
                       !.body = <<[tag |-> "error_page", text |-> EmptyText]>>]

\* a method the route does not list (lines 123, 136): the framework answers 405
MethodNotAllowedResponse ==
    [NoResponse EXCEPT !.status = 405, !.mimetype = "text/html",
                       !.message = "Method Not Allowed",
                       !.body = <<[tag |-> "error_page", text |-> EmptyText]>>]

\* send_file(stream, mimetype=..., as_attachment=True, download_name=...)
send_file(stream, mimetype, as_attachment, download_name) ==
    [NoResponse EXCEPT !.status = 200, !.mimetype = mimetype,
                       !.as_attachment = as_attachment,
                       !.download_name = download_name,
                       !.body = ReadStream(stream)]

\* A slip: the response is returned as send_file made it.
SuccessResponseCacheable(stream) == send_file(stream, "image/png", TRUE, "qrcode.png")

\* lines 110-117
SuccessResponse(stream) ==
    LET r == send_file(stream, "image/png", TRUE, "qrcode.png")
    IN  [r EXCEPT !.headers = {h \in r.headers : h[1] # "Cache-Control"}
                               \cup {<<"Cache-Control", "no-store">>}]

(***************************************************************************)
(* Requests.                                                               *)
(***************************************************************************)
Methods == {"GET", "POST"}

Paths == {"/", "/about", "/contact"}

\* a submission without the field `data`
NoForm == [k \in {} |-> EmptyText]

Forms == {NoForm} \cup {[k \in {"data"} |-> s] : s \in Texts}

Requests == [method : Methods, path : Paths, form : Forms]

NoRequest == [method |-> "", path |-> "", form |-> NoForm]

\* request.form.get(key, default)
FormGet(form, key, default) == IF key \in DOMAIN form THEN form[key] ELSE default

\* the view function the routes give a request (lines 76, 123, 136)
ViewOf(r) ==
    CASE r.path = "/" -> "home"
      [] r.path = "/about" /\ r.method = "GET" -> "about"
      [] r.path = "/contact" /\ r.method = "GET" -> "contact"
      [] OTHER -> "method_not_allowed"

\* A slip: every call of home() shares one `data` and one `qr_stream` (module globals).
SharedFrame(t) == 1

\* the call frame holding the locals of the call of home() that thread t runs
Frame(t) == t

\* A slip: the form is read on every request.
AnyMethodIsPost(r) == TRUE

\* request.method == "POST"  (line 95)
IsPost(r) == r.method = "POST"

\* request.form.get("data", "").strip()  (line 96)
FormData(r) == Strip(FormGet(r.form, "data", EmptyText))

\* A slip: `data is None` in place of `not data`; the field read is never None.
DataIsNone(d) == FALSE

\* not data  (line 99)
NotData(d) == d = EmptyText

MAX_TEXT_LEN == 1000

\* A slip: the limit is off by one.
TooLongOffByOne(d) == PyLen(d) > MAX_TEXT_LEN + 1

\* len(data) > 1000  (line 102)
TooLong(d) == PyLen(d) > MAX_TEXT_LEN

(***************************************************************************)
(* The worker threads.                                                     *)
(***************************************************************************)
InitRequests ==
    /\ pc = [t \in Threads |-> "idle"]
    /\ req = [t \in Threads |-> NoRequest]
    /\ data = [t \in Threads |-> EmptyText]
    /\ qr_stream = [t \in Threads |-> NoBuffer]
    /\ response = [t \in Threads |-> NoResponse]
    /\ calls = [t \in Threads |-> <<>>]
    /\ steps = [t \in Threads |-> <<>>]

\* the request ends with response r
Respond(t, r, step) ==
    /\ response' = [response EXCEPT ![t] = r]
    /\ pc' = [pc EXCEPT ![t] = "done"]
    /\ steps' = [steps EXCEPT ![t] = Append(@, step)]

\* the request goes on at label
Goto(t, label, step) ==
    /\ pc' = [pc EXCEPT ![t] = label]
    /\ steps' = [steps EXCEPT ![t] = Append(@, step)]
    /\ UNCHANGED response

\* a request, one of those in rs, comes in and is routed
Arrive(t, rs) ==
    /\ pc[t] = "idle"
    /\ \E r \in rs :
          /\ req' = [req EXCEPT ![t] = r]
          /\ IF ViewOf(r) = "method_not_allowed"
             THEN Respond(t, MethodNotAllowedResponse, "route")
             ELSE Goto(t, ViewOf(r), "route")
    /\ UNCHANGED <<data, qr_stream, calls, env, main>>

\* home(), not a POST: line 120
HomeRender(t) ==
    /\ pc[t] = "home"
    /\ ~IsPost(req[t])
    /\ Respond(t, render_template("index.html"), "render")
    /\ UNCHANGED <<req, data, qr_stream, calls, env, main>>

\* home(), a POST: line 96
HomeReadForm(t) ==
    /\ pc[t] = "home"
    /\ IsPost(req[t])
    /\ data' = [data EXCEPT ![Frame(t)] = FormData(req[t])]
    /\ Goto(t, "check_empty", "read_form")
    /\ UNCHANGED <<req, qr_stream, calls, env, main>>

\* lines 99-100
HomeCheckEmpty(t) ==
    /\ pc[t] = "check_empty"
    /\ IF NotData(data[Frame(t)])
       THEN Respond(t, EmptyInputResponse, "check_empty")
       ELSE Goto(t, "check_length", "check_empty")
    /\ UNCHANGED <<req, data, qr_stream, calls, env, main>>

\* lines 102-104
HomeCheckLength(t) ==
    /\ pc[t] = "check_length"
    /\ IF TooLong(data[Frame(t)])
       THEN Respond(t, TooLongResponse, "check_length")
       ELSE Goto(t, "generate", "check_length")
    /\ UNCHANGED <<req, data, qr_stream, calls, env, main>>

\* line 107
HomeGenerate(t) ==
    /\ pc[t] = "generate"
    /\ LET res == generate_qr_code(data[Frame(t)])
       IN  /\ calls' = [calls EXCEPT ![t] = Append(@, res)]
           /\ IF res.raised
              THEN /\ Respond(t, EncoderErrorResponse, "generate")
                   /\ UNCHANGED qr_stream
              ELSE /\ qr_stream' = [qr_stream EXCEPT ![Frame(t)] = res.value]
                   /\ Goto(t, "send", "generate")
    /\ UNCHANGED <<req, data, env, main>>

\* lines 110-117
HomeSend(t) ==
    /\ pc[t] = "send"
    /\ Respond(t, SuccessResponse(qr_stream[Frame(t)]), "send")
    /\ UNCHANGED <<req, data, qr_stream, calls, env, main>>

\* about(): line 133
About(t) ==
    /\ pc[t] = "about"
    /\ Respond(t, render_template("about.html"), "render")
    /\ UNCHANGED <<req, data, qr_stream, calls, env, main>>

\* contact(): line 146
Contact(t) ==
    /\ pc[t] = "contact"
    /\ Respond(t, render_template("contact.html"), "render")
    /\ UNCHANGED <<req, data, qr_stream, calls, env, main>>

\* the response is sent; the frame of home() and the buffer are gone
Finish(t) ==
    /\ pc[t] = "done"
    /\ pc' = [pc EXCEPT ![t] = "idle"]
    /\ req' = [req EXCEPT ![t] = NoRequest]
    /\ data' = [data EXCEPT ![Frame(t)] = EmptyText]
    /\ qr_stream' = [qr_stream EXCEPT ![Frame(t)] = NoBuffer]
    /\ response' = [response EXCEPT ![t] = NoResponse]
    /\ calls' = [calls EXCEPT ![t] = <<>>]
    /\ steps' = [steps EXCEPT ![t] = <<>>]
    /\ UNCHANGED <<env, main>>

Step(t) ==
    \/ HomeRender(t)
    \/ HomeReadForm(t)
    \/ HomeCheckEmpty(t)
    \/ HomeCheckLength(t)
    \/ HomeGenerate(t)
    \/ HomeSend(t)
    \/ About(t)
    \/ Contact(t)
    \/ Finish(t)

(***************************************************************************)
(* The __main__ block (lines 150-155).  A value of the environment is a    *)
(* sequence of characters; a variable is <<>> when unset and <<value>>     *)
(* when set.                                                               *)
(***************************************************************************)
EnvChars == {"t", "T", "r", "u", "e", "E", "y", "Y", "s", "S", "1", " "}

DebugValues == UNION {[1..k -> EnvChars] : k \in 0..MaxEnvLen}

PortValues == {<<"8", "0">>, <<"8", "x">>}

HostValues == {"127.0.0.1"}

Option(S) == {<<>>} \cup {<<v>> : v \in S}

Envs == [IS_DEBUG : Option(DebugValues),
         FLASK_RUN_HOST : Option(HostValues),
         FLASK_RUN_PORT : Option(PortValues)]

EmptyEnv == [IS_DEBUG |-> <<>>, FLASK_RUN_HOST |-> <<>>, FLASK_RUN_PORT |-> <<>>]

\* os.getenv(name, default)
getenv(e, name, default) == IF e[name] = <<>> THEN default ELSE e[name][1]

\* str.lower() of one character
LowerChar(ch) ==
    CASE ch = "T" -> "t"
      [] ch = "E" -> "e"
      [] ch = "F" -> "f"
      [] ch = "S" -> "s"
      [] ch = "Y" -> "y"
      [] OTHER -> ch

\* A slip: the value is compared as given.
NoLower(value) == value

\* str(value).lower()
Lower(value) == [i \in 1..Len(value) |-> LowerChar(value[i])]

TRUTHY == {<<"t", "r", "u", "e">>, <<"1">>, <<"t">>, <<"y", "e", "s">>, <<"y">>}

\* is_truthy (lines 70-72)
is_truthy(value) == Lower(value) \in TRUTHY

Digits == {"0", "1", "2", "3", "4", "5", "6", "7", "8", "9"}

DigitValue(ch) ==
    CASE ch = "0" -> 0 [] ch = "1" -> 1 [] ch = "2" -> 2 [] ch = "3" -> 3
      [] ch = "4" -> 4 [] ch = "5" -> 5 [] ch = "6" -> 6 [] ch = "7" -> 7
      [] ch = "8" -> 8 [] ch = "9" -> 9

\* int(text) raises ValueError
IntRaises(text) == text = <<>> \/ \E i \in 1..Len(text) : text[i] \notin Digits

\* int(text), text a sequence of digits
RECURSIVE IntOf(_)
IntOf(text) ==
    IF text = <<>> THEN 0
    ELSE 10 * IntOf(SubSeq(text, 1, Len(text) - 1)) + DigitValue(text[Len(text)])

DEFAULT_PORT == 5000

DEFAULT_HOST == "0.0.0.0"

DEFAULT_DEBUG == <<"F", "a", "l", "s", "e">>

NotStarted == [pc |-> "start", debug_mode |-> FALSE, host |-> "", port |-> 0]

\* lines 151-155: the locals when app.run is reached, or the ValueError of line 153
RunMain(e) ==
    LET debug_mode == is_truthy(getenv(e, "IS_DEBUG", DEFAULT_DEBUG))
        host == getenv(e, "FLASK_RUN_HOST", DEFAULT_HOST)
    IN  IF e.FLASK_RUN_PORT # <<>> /\ IntRaises(e.FLASK_RUN_PORT[1])
        THEN [pc |-> "crashed", debug_mode |-> debug_mode, host |-> host, port |-> 0]
        ELSE [pc |-> "serving", debug_mode |-> debug_mode, host |-> host,
              port |-> IF e.FLASK_RUN_PORT = <<>> THEN DEFAULT_PORT
                       ELSE IntOf(e.FLASK_RUN_PORT[1])]

Main ==
    /\ main.pc = "start"
    /\ main' = RunMain(env)
    /\ UNCHANGED <<reqVars, env>>

(***************************************************************************)
(* Specifications.                                                         *)
(***************************************************************************)
\* One worker thread serving any request, one after the other.
Init ==
    /\ InitRequests
    /\ env = EmptyEnv
    /\ main = RunMain(EmptyEnv)

Next ==
    \/ Arrive(1, Requests)
    \/ Step(1)

Spec == Init /\ [][Next]_vars

\* Every worker thread serving requests, interleaved statement by statement.
Text(ch, k) == <<[c |-> ch, n |-> k]>>

ConcTexts ==
    {EmptyText, Text(" ", 1), Text("a", 1), Text(" ", 1) \o Text("a", 1000),
     Text("a", 1001), Text(CJK, 1000)}

ConcRequests ==
    {[method |-> "POST", path |-> "/", form |-> [k \in {"data"} |-> s]] : s \in ConcTexts}
    \cup {[method |-> "POST", path |-> "/", form |-> NoForm],
          [method |-> "GET", path |-> "/", form |-> NoForm],
          [method |-> "GET", path |-> "/about", form |-> NoForm],
          [method |-> "GET", path |-> "/contact", form |-> NoForm],
          [method |-> "POST", path |-> "/contact", form |-> NoForm]}

NextConc ==
    \E t \in Threads :
        \/ Arrive(t, ConcRequests)
        \/ Step(t)

SpecConc == Init /\ [][NextConc]_vars

\* The start of the process under any environment.
InitConfig ==
    /\ InitRequests
    /\ env \in Envs
    /\ main = NotStarted

NextConfig == Main

SpecConfig == InitConfig /\ [][NextConfig]_vars

(***************************************************************************)
(* What the properties speak of.                                           *)
(***************************************************************************)
Done(t) == pc[t] = "done"

PostHome(t) == req[t].method = "POST" /\ req[t].path = "/"

HasData(t) == "data" \in DOMAIN req[t].form

\* the value submitted as `data`
Submitted(t) == req[t].form["data"]

\* ch is a whitespace character
White(ch) == ch = " " \/ ch = "\n"

\* s is empty or whitespace only
Blank(s) == \A i \in 1..Len(s) : White(s[i].c)

\* s neither starts nor ends with whitespace
Trimmed(s) == s = <<>> \/ (~White(s[1].c) /\ ~White(s[Len(s)].c))

\* d is s without its surrounding whitespace
IsTrimOf(d, s) ==
    /\ Trimmed(d)
    /\ \E i \in 0..Len(s) : \E j \in i..Len(s) :
          /\ d = SubSeq(s, i + 1, j)
          /\ \A k \in 1..i : White(s[k].c)
          /\ \A k \in (j + 1)..Len(s) : White(s[k].c)

\* s between its surrounding whitespace
TrimmedPart(s) ==
    LET core == {k \in 1..Len(s) : ~White(s[k].c)}
    IN  IF core = {} THEN <<>>
        ELSE LET lo == CHOOSE k \in core : \A m \in core : k <= m
                 hi == CHOOSE k \in core : \A m \in core : k >= m
             IN  SubSeq(s, lo, hi)

TrimmedLen(s) == PyLen(TrimmedPart(s))

\* the trimmed value of the request of t is one the QR library can encode
Encodable(t) == Fits(TrimmedPart(Submitted(t)))

IsPngAttachment(r) ==
    /\ r.status = 200
    /\ r.mimetype = "image/png"
    /\ r.body # <<>>

C2_BlankGivesJson400 ==
    \A t \in Threads :
        (PostHome(t) /\ (~HasData(t) \/ Blank(Submitted(t))))
        => /\ calls[t] = <<>>
           /\ Done(t) => /\ response[t].status = 400
                         /\ response[t].mimetype = "application/json"
                         /\ "error" \in response[t].json_keys

C2_Witness ==
    \E t \in Threads :
        /\ Done(t) /\ PostHome(t) /\ HasData(t)
        /\ Submitted(t) # EmptyText /\ Blank(Submitted(t))
        /\ response[t].status = 400
        /\ "error" \in response[t].json_keys

C4_AsStated ==
    \A t \in Threads :
        (Done(t) /\ PostHome(t) /\ HasData(t) /\ PyLen(Submitted(t)) = 1001)
        => response[t].status = 400

\* C4, amended: a text of 1001 characters posted to / gives 400 unless trimming its
\* surrounding whitespace leaves between 1 and 1000 characters.
C4_Len1001Gives400 ==
    \A t \in Threads :
        (Done(t) /\ PostHome(t) /\ HasData(t) /\ PyLen(Submitted(t)) = 1001
            /\ ~(TrimmedLen(Submitted(t)) >= 1 /\ TrimmedLen(Submitted(t)) <= 1000))
        => response[t].status = 400

C4_Witness ==
    \E t \in Threads :
        /\ Done(t) /\ PostHome(t) /\ HasData(t)
        /\ PyLen(Submitted(t)) = 1001
        /\ Trimmed(Submitted(t))
        /\ response[t].status = 400

\* C5: every 200 response to a POST on / is the attachment qrcode.png of type
\* image/png with the header Cache-Control: no-store.
C5_SuccessIsUncachedAttachment ==
    \A t \in Threads :
        (Done(t) /\ PostHome(t) /\ response[t].status = 200)
        => /\ <<"Cache-Control", "no-store">> \in response[t].headers
           /\ \A h \in response[t].headers : h[1] = "Cache-Control" => h[2] = "no-store"
           /\ response[t].as_attachment
           /\ response[t].download_name = "qrcode.png"
           /\ response[t].mimetype = "image/png"

C5_Witness ==
    \E t \in Threads :
        /\ Done(t) /\ PostHome(t)
        /\ response[t].status = 200
        /\ <<"Cache-Control", "no-store">> \in response[t].headers

\* C6: when the QR library raises on an input that passed validation, the request
\* is over with 500, and the encoder was called once, not again.
C6_EncoderFailureGives500 ==
    \A t \in Threads :
        (\E i \in 1..Len(calls[t]) : calls[t][i].raised)
        => /\ Len(calls[t]) = 1
           /\ Done(t)
           /\ response[t].status = 500

C6_Witness ==
    \E t \in Threads :
        /\ Done(t) /\ PostHome(t)
        /\ Len(calls[t]) = 1 /\ calls[t][1].raised
        /\ TrimmedLen(Submitted(t)) <= 1000
        /\ response[t].status = 500

\* C7: whatever the other threads serve, served or are in the middle of, two
\* requests with the same method, path and data end with the same response.
C7_ResponseDependsOnRequestOnly ==
    \A t1 \in Threads : \A t2 \in Threads :
        (Done(t1) /\ Done(t2) /\ req[t1] = req[t2])
        => response[t1] = response[t2]

C7_Witness ==
    \E t1 \in Threads : \E t2 \in Threads :
        /\ t1 # t2
        /\ Done(t1) /\ Done(t2) /\ req[t1] = req[t2]
        /\ PostHome(t1)
        /\ response[t1].status = 200 /\ response[t2].status = 200

\* C8: a GET on /, /about or /contact gives 200 with an HTML page; on / it is the
\* form, given without any check of the input and without the encoder, whatever the
\* request carries.
C8_GetGivesPage ==
    \A t \in Threads :
        (Done(t) /\ req[t].method = "GET")
        => /\ response[t].status = 200
           /\ response[t].mimetype = "text/html"
           /\ calls[t] = <<>>
           /\ steps[t] = <<"route", "render">>
           /\ req[t].path = "/"
                => response[t].body = <<[tag |-> "index.html", text |-> EmptyText]>>

C8_Witness ==
    \E t \in Threads :
        /\ Done(t) /\ req[t].method = "GET" /\ req[t].path = "/"
        /\ HasData(t) /\ Blank(Submitted(t))
        /\ response[t].status = 200

\* equal but for the case of the letters
SameLetter(a, b) == a = b \/ <<a, b>> \in {<<"T", "t">>, <<"E", "e">>, <<"Y", "y">>, <<"S", "s">>}

EqualIgnoringCase(v, w) ==
    /\ Len(v) = Len(w)
    /\ \A i \in 1..Len(v) : SameLetter(v[i], w[i])

\* C9: once the process has started, the debug flag is true exactly when IS_DEBUG
\* is set and is, but for case, one of true, 1, t, yes, y.
C9_DebugFlag ==
    main.pc # "start"
    => (main.debug_mode
        <=> /\ env.IS_DEBUG # <<>>
            /\ \E w \in {<<"t", "r", "u", "e">>, <<"1">>, <<"t">>,
                         <<"y", "e", "s">>, <<"y">>} :
                   EqualIgnoringCase(env.IS_DEBUG[1], w))

C9_Witness ==
    /\ main.pc = "serving"
    /\ main.debug_mode
    /\ env.IS_DEBUG # <<>>
    /\ Len(env.IS_DEBUG[1]) = 4
    /\ env.IS_DEBUG[1][1] = "T"

\* C10: the encoder is called at most once for a request, only for a POST on /,
\* only after the empty check and then the length check, and with the trimmed data,
\* of 1 to 1000 characters, which its own trim leaves as it is.
C10_EncoderArgument ==
    \A t \in Threads :
        /\ Len(calls[t]) <= 1
        /\ calls[t] # <<>>
            => /\ PostHome(t) /\ HasData(t)
               /\ SubSeq(steps[t], 1, 5)
                    = <<"route", "read_form", "check_empty", "check_length", "generate">>
               /\ IsTrimOf(calls[t][1].arg, Submitted(t))
               /\ PyLen(calls[t][1].arg) >= 1
               /\ PyLen(calls[t][1].arg) <= 1000
               /\ calls[t][1].payload = calls[t][1].arg

C10_Witness ==
    \E t \in Threads :
        /\ Len(calls[t]) = 1
        /\ ~calls[t][1].raised
        /\ ~Trimmed(Submitted(t))
        /\ PyLen(calls[t][1].arg) = 1000

====
